---- MODULE Spec2Model ----
(***************************************************************************)
(* A model of moreau-listener.py: the bridge from PostgreSQL NOTIFY to     *)
(* RabbitMQ.  The supervisor (__main__) loads the configuration units,     *)
(* starts one process per bridge name and joins them; each process runs    *)
(* run(): connect, LISTEN, then poll() for ever, handing every             *)
(* notification to republish_message().                                    *)
(*                                                                         *)
(* Strings that the code takes apart (the NOTIFY payload) are sequences of *)
(* one-character strings.  Python's None is the value None below, which is *)
(* no payload.  A broker connection is a handle 1, 2, ... numbered in the   *)
(* order the bridge opened them; handle 0 stands for conn = None.          *)
(*                                                                         *)
(* A step of a process is one blocking call (a connect, LISTEN, select, a  *)
(* broker operation) with the local code around it, so the other processes *)
(* and the database run between any two of them.                           *)
(*                                                                         *)
(* Environment: the database emits, per bridge, the notifications of feed  *)
(* in order; every broker operation may raise, conn.close() included.      *)
(* After LISTEN succeeded the database connection itself is taken to stay  *)
(* up (select and conn_postgres.poll() do not raise).                      *)
(***************************************************************************)
EXTENDS Naturals, Sequences, FiniteSets, TLC

\* ------------------------------------------------------------------ bounds

\* Longest feed of one bridge under Spec.
MaxNotifs == 3
\* Longest payload under SpecPayload.
MaxLen == 4
\* Most configuration files on the command line under SpecSup.
MaxFiles == 2

\* ------------------------------------------------------------------ values

Names == {"b1", "b2"}
Chars == {"a", "b", ":"}
None == <<"None">>
Absent == "<absent>"

SeqsUpTo(S, n) == UNION {[1..k -> S] : k \in 0..n}

\* ------------------------------------------------------- the payload parser

\* The position of the first ':' of s, 0 when s has none.
FirstColon(s) ==
    IF \E i \in 1..Len(s) : s[i] = ":"
    THEN CHOOSE i \in 1..Len(s) : s[i] = ":" /\ \A j \in 1..(i-1) : s[j] # ":"
    ELSE 0

\* A wrong split: at the last ':' instead of the first.
LastColon(s) ==
    IF \E i \in 1..Len(s) : s[i] = ":"
    THEN CHOOSE i \in 1..Len(s) : s[i] = ":" /\ \A j \in (i+1)..Len(s) : s[j] # ":"
    ELSE 0

split_mutant(s) ==
    LET i == LastColon(s) IN
    IF i = 0 THEN <<s>> ELSE <<SubSeq(s, 1, i-1), SubSeq(s, i+1, Len(s))>>

\* pg_payload.split(':', 1): one part when there is no ':', else two.
split(s) ==
    LET i == FirstColon(s) IN
    IF i = 0 THEN <<s>> ELSE <<SubSeq(s, 1, i-1), SubSeq(s, i+1, Len(s))>>

\* routing_key, message = pg_payload.split(':', 1), and (None, None) when the
\* unpacking raises.
parse_payload(s) ==
    LET parts == split(s) IN
    IF Len(parts) = 2
    THEN [routing_key |-> parts[1], message |-> parts[2]]
    ELSE [routing_key |-> None, message |-> None]

\* Python's "not x" for a string or None.
falsy(x) == x = None \/ x = <<>>

improperly_formatted_mutant(p) == falsy(p.routing_key)

\* if not routing_key or not message
improperly_formatted(p) == falsy(p.routing_key) \/ falsy(p.message)

\* --------------------------------------------------------- configuration

\* A configuration unit, cut to the options the bridge's behaviour reads:
\* bridge.name, rabbitmq.exchange, the optional rabbitmq.queue, and
\* postgres.host standing for the other required options.
ConfigUnits ==
    [name : Names, exchange : {"", "ex1"}, queue : {Absent, "q1"},
     pg_host : {Absent, "", "db"}]

\* The options parse_config checks.
checks == {"name", "exchange", "pg_host"}

\* A wrong check: has_option never consulted.
has_option_mutant(unit, key) == TRUE

has_option(unit, key) == unit[key] # Absent

\* parse_config exits when a checked option is missing.
config_ok(unit) == \A key \in checks : has_option(unit, key)

\* A wrong store: a name already loaded keeps its first configuration.
dict_set_mutant(master, unit) ==
    IF \E i \in 1..Len(master) : master[i].name = unit.name
    THEN master
    ELSE Append(master, unit)

\* MASTER_CONFIG[bridge_name] = this_config on an OrderedDict, kept as the
\* sequence of its values in key order: a known key keeps its place.
dict_set(master, unit) ==
    IF \E i \in 1..Len(master) : master[i].name = unit.name
    THEN [i \in 1..Len(master) |->
            IF master[i].name = unit.name THEN unit ELSE master[i]]
    ELSE Append(master, unit)

RECURSIVE load_mutant(_, _)
\* A wrong loader: a unit with a missing option is skipped and the others
\* are still loaded.
load_mutant(fs, master) ==
    IF fs = <<>> THEN [exit |-> FALSE, master |-> master]
    ELSE IF ~config_ok(Head(fs)) THEN load_mutant(Tail(fs), master)
    ELSE load_mutant(Tail(fs), dict_set(master, Head(fs)))

RECURSIVE load(_, _)
\* The loop over config_list(ARGS): the OrderedDict after the files; exit is
\* set when parse_config exits on one of them.
load(fs, master) ==
    IF fs = <<>> THEN [exit |-> FALSE, master |-> master]
    ELSE IF ~config_ok(Head(fs)) THEN [exit |-> TRUE, master |-> master]
    ELSE load(Tail(fs), dict_set(master, Head(fs)))

\* ------------------------------------------------------------------ state

VARIABLES
    files,          \* config_list(ARGS): the configuration units, in order
    persistent,     \* ARGS.persistent
    feed,           \* per bridge: the payloads its database will NOTIFY
    supPc,          \* the supervisor: load, launch, join, done, exit1
    MASTER_CONFIG,  \* the OrderedDict, as the sequence of its values
    PROC_LIST,      \* the names of the processes started, in order
    joined,         \* how many processes of PROC_LIST have been joined
    state,          \* per bridge: NONE, STARTING, LISTENING, DRAINING, FATAL
    pc,             \* per bridge: where its process is: the next blocking
                    \* call (run, connect_postgres, register_listen, select,
                    \* a broker operation) or the loop head (pop)
    config,         \* per bridge: the configuration its process was given
    conn_rabbitmq,  \* per bridge: run()'s broker handle, 0 for None
    opened,         \* per bridge: how many broker connections it has opened
    closed,         \* per bridge: the handles it has closed
    sent,           \* per bridge: how many payloads of feed were notified
    socket,         \* per bridge: notifications sent and not yet read
    notifies,       \* per bridge: conn_postgres.notifies
    calls,          \* per bridge: the callback's calls: the notification's
                    \* id and the step that raised in it, in order
    published,      \* per bridge: the basic_publish calls made, in order
    last,           \* per bridge: the last republish_message call
    logged          \* the log calls of the last step, with the process name

supVars == <<files, persistent, feed, supPc, MASTER_CONFIG, PROC_LIST, joined>>
brokerVars == <<conn_rabbitmq, opened, closed, published, last>>
dbVars == <<sent, socket, notifies, calls>>
vars == <<supVars, state, pc, config, brokerVars, dbVars, logged>>

NoCall ==
    [id |-> 0, payload |-> <<>>, conn |-> 0, ops |-> <<>>, failed |-> "none",
     close_raised |-> FALSE]
NoConfig == [name |-> Absent, exchange |-> Absent, queue |-> Absent, pg_host |-> Absent]

\* The open broker connections of bridge n.
open_conns(n) == (1..opened[n]) \ closed[n]

\* ------------------------------------------------------------------- init

InitRest ==
    /\ supPc = "load"
    /\ MASTER_CONFIG = <<>>
    /\ PROC_LIST = <<>>
    /\ joined = 0
    /\ state = [n \in Names |-> "NONE"]
    /\ pc = [n \in Names |-> "none"]
    /\ config = [n \in Names |-> NoConfig]
    /\ conn_rabbitmq = [n \in Names |-> 0]
    /\ opened = [n \in Names |-> 0]
    /\ closed = [n \in Names |-> {}]
    /\ sent = [n \in Names |-> 0]
    /\ socket = [n \in Names |-> <<>>]
    /\ notifies = [n \in Names |-> <<>>]
    /\ calls = [n \in Names |-> <<>>]
    /\ published = [n \in Names |-> <<>>]
    /\ last = [n \in Names |-> NoCall]
    /\ logged = <<>>

\* The payloads of the runs with several notifications: two well-formed
\* ones, one with no separator, one with an empty body.  (SpecPayload runs
\* every payload up to MaxLen characters.)
CorePayloads ==
    { <<"a", ":", "b">>, <<"b", ":", "a", ":", "b">>, <<"a">>, <<"a", ":">> }

\* One bridge, up to MaxNotifs notifications.
Init ==
    /\ files \in {<<u>> : u \in {c \in ConfigUnits :
                                    c.name = "b1" /\ c.pg_host # ""}}
    /\ persistent \in BOOLEAN
    /\ feed \in {[n \in Names |-> IF n = "b1" THEN f ELSE <<>>] :
                    f \in SeqsUpTo(CorePayloads, MaxNotifs)}
    /\ InitRest

\* One bridge, one notification with any payload up to MaxLen characters.
InitPayload ==
    /\ files \in {<<u>> : u \in {c \in ConfigUnits :
                                    c.name = "b1" /\ c.pg_host # ""}}
    /\ persistent \in BOOLEAN
    /\ feed \in {[n \in Names |-> IF n = "b1" THEN <<p>> ELSE <<>>] :
                    p \in SeqsUpTo(Chars, MaxLen)}
    /\ InitRest

\* Up to MaxFiles configuration units, each bridge with at most one
\* notification.
InitSup ==
    /\ files \in SeqsUpTo({c \in ConfigUnits :
                              c.exchange = "ex1" /\ c.queue = Absent}, MaxFiles)
    /\ persistent \in BOOLEAN
    /\ feed \in [Names -> {<<>>, << <<"a", ":", "b">> >>, << <<"a">> >>}]
    /\ InitRest

\* ------------------------------------------------------------------ logging

\* One logging call of process n: the format puts the process name in each
\* line.
Log(n, level, msg) == [proc |-> n, level |-> level, msg |-> msg, arg |-> <<>>]
LogArg(n, level, msg, arg) == [proc |-> n, level |-> level, msg |-> msg, arg |-> arg]

CriticalExit(n) == Log(n, "critical", "Unable to continue; exiting.")

TimedOut(n) == Log(n, "debug", "Timed out while polling. (this is normal)")

\* ------------------------------------------------------------- supervisor

\* The name of the i-th file of config_list(ARGS).
filename(i) == "f" \o ToString(i) \o ".ini"

\* How many files parse_config is called on: all of them, or up to the first
\* with a missing option, on which it exits.
parsed_count(fs) ==
    IF \E i \in 1..Len(fs) : ~config_ok(fs[i])
    THEN CHOOSE i \in 1..Len(fs) :
            ~config_ok(fs[i]) /\ \A j \in 1..(i - 1) : config_ok(fs[j])
    ELSE Len(fs)

\* What parse_config logs over the loop of lines 250-253: the debug line of
\* every file it is called on, then the two critical lines when it exits.
parse_config_log(fs) ==
    [i \in 1..parsed_count(fs) |->
        LogArg("MainProcess", "debug", "Parsing config file", <<filename(i)>>)]
    \o (IF load(fs, <<>>).exit
        THEN <<Log("MainProcess", "critical", "Missing configuration option"),
               CriticalExit("MainProcess")>>
        ELSE <<>>)

\* Lines 249-253: parse every configuration file into MASTER_CONFIG;
\* parse_config ends the whole program with sys.exit(1) on a missing option,
\* MASTER_CONFIG then holding the units of the files before it.
LoadConfigs ==
    /\ supPc = "load"
    /\ LET m == load(files, <<>>) IN
         /\ MASTER_CONFIG' = m.master
         /\ supPc' = IF m.exit THEN "exit1"
                     ELSE IF m.master = <<>> THEN "done" ELSE "launch"
    /\ logged' = parse_config_log(files)
    /\ UNCHANGED <<files, persistent, feed, PROC_LIST, joined, state, pc,
                   config, brokerVars, dbVars>>

\* Lines 256-263: start the next bridge's process, which begins run().
Launch ==
    /\ supPc = "launch"
    /\ LET unit == MASTER_CONFIG[Len(PROC_LIST) + 1] IN
         /\ state' = [state EXCEPT ![unit.name] = "STARTING"]
         /\ pc' = [pc EXCEPT ![unit.name] = "run"]
         /\ config' = [config EXCEPT ![unit.name] = unit]
         /\ PROC_LIST' = Append(PROC_LIST, unit.name)
         /\ supPc' = IF Len(PROC_LIST) + 1 = Len(MASTER_CONFIG)
                     THEN "join" ELSE "launch"
    /\ logged' = <<>>
    /\ UNCHANGED <<files, persistent, feed, MASTER_CONFIG, joined,
                   brokerVars, dbVars>>

\* A wrong wait: the join returns whether or not the process has ended.
Join_mutant ==
    /\ supPc = "join"
    /\ joined' = joined + 1
    /\ supPc' = IF joined + 1 = Len(PROC_LIST) THEN "done" ELSE "join"
    /\ logged' = <<>>
    /\ UNCHANGED <<files, persistent, feed, MASTER_CONFIG, PROC_LIST, state,
                   pc, config, brokerVars, dbVars>>

\* Lines 264-265: p.join() returns once process p has ended; after the last
\* join the program ends.
Join ==
    /\ supPc = "join"
    /\ state[PROC_LIST[joined + 1]] = "FATAL"
    /\ joined' = joined + 1
    /\ supPc' = IF joined + 1 = Len(PROC_LIST) THEN "done" ELSE "join"
    /\ logged' = <<>>
    /\ UNCHANGED <<files, persistent, feed, MASTER_CONFIG, PROC_LIST, state,
                   pc, config, brokerVars, dbVars>>

\* ------------------------------------------------------------ bridge start

\* A wrong isolation: the bridges share one process, so the end of one ends
\* them all.
exit_process_mutant(n) ==
    [m \in Names |-> IF state[m] = "NONE" THEN "NONE" ELSE "FATAL"]

\* The process of bridge n ends (sys.exit(1) or an uncaught exception): the
\* processes of the other bridges are not touched.
exit_process(n) == [state EXCEPT ![n] = "FATAL"]

\* Line 235, logged by the step of run() that comes first.
run_log(n) ==
    IF pc[n] = "run" THEN <<Log(n, "info", "Initiating bridge")>> ELSE <<>>

\* What connect_rabbitmq logs, the connection made (ok) or refused.
connect_rabbitmq_log(n, ok) ==
    <<Log(n, "debug", "Connecting to the RabbitMQ broker.")>>
    \o (IF ok
        THEN <<Log(n, "info", "Connection to RabbitMQ established.")>>
        ELSE <<Log(n, "critical", "Could not connect to RabbitMQ broker."),
               CriticalExit(n)>>)

\* What connect_postgres logs.
connect_postgres_log(n, ok) ==
    <<Log(n, "debug", "Connecting to the PostgreSQL server.")>>
    \o (IF ok
        THEN <<Log(n, "info", "Connection to PostgreSQL established.")>>
        ELSE <<Log(n, "critical", "Could not connect to PostgreSQL server."),
               CriticalExit(n)>>)

\* What register_listen logs, and poll() before its loop: when LISTEN fails
\* the except branch re-raises before its critical messages.
register_listen_log(n, ok) ==
    <<Log(n, "debug", "Preparing to start listening on channel")>>
    \o (IF ok
        THEN <<Log(n, "info", "Listening on channel"),
               Log(n, "info", "Beginning polling for messages.")>>
        ELSE <<>>)

\* run() in persistent mode, lines 235-237: connect to the broker, which
\* ends the process when it fails.
connect_rabbitmq(n) ==
    /\ state[n] = "STARTING"
    /\ pc[n] = "run"
    /\ persistent
    /\ \E ok \in BOOLEAN :
         /\ logged' = run_log(n) \o connect_rabbitmq_log(n, ok)
         /\ IF ok
            THEN /\ opened' = [opened EXCEPT ![n] = @ + 1]
                 /\ conn_rabbitmq' = [conn_rabbitmq EXCEPT ![n] = opened[n] + 1]
                 /\ pc' = [pc EXCEPT ![n] = "connect_postgres"]
                 /\ UNCHANGED state
            ELSE /\ state' = exit_process(n)
                 /\ pc' = [pc EXCEPT ![n] = "ended"]
                 /\ UNCHANGED <<opened, conn_rabbitmq>>
    /\ UNCHANGED <<supVars, config, closed, published, last, dbVars>>

\* run(), line 240 (after lines 235-239 in ephemeral mode): connect to the
\* database, which ends the process when it fails.
connect_postgres(n) ==
    /\ state[n] = "STARTING"
    /\ pc[n] = "connect_postgres" \/ (pc[n] = "run" /\ ~persistent)
    /\ \E ok \in BOOLEAN :
         /\ logged' = run_log(n) \o connect_postgres_log(n, ok)
         /\ IF ok
            THEN /\ pc' = [pc EXCEPT ![n] = "register_listen"]
                 /\ UNCHANGED state
            ELSE /\ state' = exit_process(n)
                 /\ pc' = [pc EXCEPT ![n] = "ended"]
    /\ UNCHANGED <<supVars, config, brokerVars, dbVars>>

\* run(), lines 241-242: LISTEN, then enter poll(); a failed LISTEN ends the
\* process by the exception register_listen re-raises.
register_listen(n) ==
    /\ state[n] = "STARTING"
    /\ pc[n] = "register_listen"
    /\ \E ok \in BOOLEAN :
         /\ logged' = register_listen_log(n, ok)
         /\ IF ok
            THEN /\ state' = [state EXCEPT ![n] = "LISTENING"]
                 /\ pc' = [pc EXCEPT ![n] = "select"]
            ELSE /\ state' = exit_process(n)
                 /\ pc' = [pc EXCEPT ![n] = "ended"]
    /\ UNCHANGED <<supVars, config, brokerVars, dbVars>>

\* run(): one blocking call of the start after the other.
run(n) ==
    \/ connect_rabbitmq(n)
    \/ connect_postgres(n)
    \/ register_listen(n)

\* ------------------------------------------------------------ the database

\* The database delivers the next NOTIFY of the bridge's channel to the
\* connection's socket, once the bridge has issued LISTEN.
Notify(n) ==
    /\ state[n] \in {"LISTENING", "DRAINING"}
    /\ sent[n] < Len(feed[n])
    /\ sent' = [sent EXCEPT ![n] = @ + 1]
    /\ socket' = [socket EXCEPT ![n] =
                    Append(@, [id |-> sent[n] + 1,
                               payload |-> feed[n][sent[n] + 1]])]
    /\ logged' = <<>>
    /\ UNCHANGED <<supVars, state, pc, config, brokerVars, notifies, calls>>

\* --------------------------------------------------------------- poll()

\* A wrong timeout branch: the timeout is taken for an error and ends the
\* process.
select_timeout_mutant(n) ==
    /\ state[n] = "LISTENING"
    /\ socket[n] = <<>>
    /\ state' = [state EXCEPT ![n] = "FATAL"]
    /\ pc' = [pc EXCEPT ![n] = "ended"]
    /\ logged' = <<TimedOut(n)>>
    /\ UNCHANGED <<supVars, config, brokerVars, dbVars>>

\* Lines 179-180: select returns nothing within 2 seconds.
select_timeout(n) ==
    /\ state[n] = "LISTENING"
    /\ socket[n] = <<>>
    /\ logged' = <<TimedOut(n)>>
    /\ UNCHANGED <<supVars, state, pc, config, brokerVars, dbVars>>

\* A wrong inner loop: "if" for "while", one notification per wake-up.
while_notifies_mutant(q) == FALSE

\* Line 183: while conn_postgres.notifies.
while_notifies(q) == q # <<>>

\* Where poll() is with q left in conn_postgres.notifies: in the inner loop,
\* or back at select.
loop_state(q) == IF while_notifies(q) THEN "DRAINING" ELSE "LISTENING"
loop_pc(q) == IF while_notifies(q) THEN "pop" ELSE "select"

\* Lines 181-183: select reports the connection readable (notifications, or
\* other traffic with none), conn_postgres.poll() moves what arrived to
\* conn_postgres.notifies in arrival order, and the inner loop is entered
\* when there is something to drain.
select_ready(n) ==
    /\ state[n] = "LISTENING"
    /\ notifies' = [notifies EXCEPT ![n] = @ \o socket[n]]
    /\ socket' = [socket EXCEPT ![n] = <<>>]
    /\ state' = [state EXCEPT ![n] = IF notifies[n] \o socket[n] = <<>>
                                     THEN "LISTENING" ELSE "DRAINING"]
    /\ pc' = [pc EXCEPT ![n] = IF notifies[n] \o socket[n] = <<>>
                               THEN "select" ELSE "pop"]
    /\ logged' = <<>>
    /\ UNCHANGED <<supVars, config, brokerVars, sent, calls>>

\* ------------------------------------------------------ republish_message

\* A wrong mode test: every call opens and closes a connection of its own.
terminate_after_message_mutant(conn) == TRUE

\* Lines 192-196: conn is None.
terminate_after_message(conn) == conn = 0

\* A wrong try block: basic_publish inside the "if 'queue' in ..." branch.
broker_ops_mutant(cfg) ==
    <<"channel">>
    \o (IF cfg.exchange # "" THEN <<"exchange_declare">> ELSE <<>>)
    \o (IF cfg.queue # Absent THEN <<"queue_declare", "basic_publish">> ELSE <<>>)

\* Lines 206-216: the broker operations of the try block, in order.
broker_ops(cfg) ==
    <<"channel">>
    \o (IF cfg.exchange # "" THEN <<"exchange_declare">> ELSE <<>>)
    \o (IF cfg.queue # Absent THEN <<"queue_declare">> ELSE <<>>)
    \o <<"basic_publish">>

InSeq(x, s) == \E i \in 1..Len(s) : s[i] = x

\* The operations of ops that follow op.
following(ops, op) ==
    IF InSeq(op, ops)
    THEN SubSeq(ops, (CHOOSE i \in 1..Len(ops) : ops[i] = op) + 1, Len(ops))
    ELSE <<>>

\* A wrong try block: every step guarded on its own, so the steps after the
\* one that raised are still called.
leaves_try_mutant(raises) == FALSE

\* Lines 205-222: an operation that raises leaves the try block for the
\* except branch.
leaves_try(raises) == raises

\* A wrong close: conn.close() inside the try block, after basic_publish.
closes_connection_mutant(term, failed) == term /\ failed = "none"

\* Lines 227-228: after the try block, whatever it did.
closes_connection(term, failed) == term

\* The call returns to the inner loop of poll(), q left in the buffer.
return_to_loop(n, q) ==
    /\ state' = [state EXCEPT ![n] = loop_state(q)]
    /\ pc' = [pc EXCEPT ![n] = loop_pc(q)]

\* After the try block, line 227: on to conn.close() or back to the loop.
after_try(n, failed) ==
    IF closes_connection(terminate_after_message(conn_rabbitmq[n]), failed)
    THEN /\ pc' = [pc EXCEPT ![n] = "close"]
         /\ UNCHANGED state
    ELSE return_to_loop(n, notifies[n])

\* conn_postgres.notifies.pop(): the last of the list.
pop_index(q) == Len(q)

\* Lines 183-185 and 192-204: one turn of the inner loop.  Pop a
\* notification and call the callback on it: in ephemeral mode it connects
\* to the broker first, which ends the process when refused; then it parses
\* the payload, discards a malformed one and returns, and goes on to the try
\* block with a well-formed one.
drain(n) ==
    /\ state[n] = "DRAINING"
    /\ pc[n] = "pop"
    /\ LET i == pop_index(notifies[n])
           notify == notifies[n][i]
           rest == SubSeq(notifies[n], 1, i - 1)
                   \o SubSeq(notifies[n], i + 1, Len(notifies[n]))
           term == terminate_after_message(conn_rabbitmq[n])
           conn == IF term THEN opened[n] + 1 ELSE conn_rabbitmq[n]
           parsed == parse_payload(notify.payload)
           call == [id |-> notify.id, payload |-> notify.payload,
                    conn |-> conn, ops |-> IF term THEN <<"connect">> ELSE <<>>,
                    failed |-> "none", close_raised |-> FALSE]
       IN \E ok \in BOOLEAN :
            /\ ~term => ok
            /\ notifies' = [notifies EXCEPT ![n] = rest]
            /\ calls' = [calls EXCEPT ![n] =
                           Append(@, [id |-> notify.id,
                                      failed |-> IF ok THEN "none"
                                                 ELSE "connect"])]
            /\ IF ~ok
               THEN /\ last' = [last EXCEPT ![n] =
                                  [call EXCEPT !.conn = 0, !.failed = "connect"]]
                    /\ logged' = connect_rabbitmq_log(n, FALSE)
                    /\ state' = exit_process(n)
                    /\ pc' = [pc EXCEPT ![n] = "ended"]
                    /\ UNCHANGED opened
               ELSE /\ last' = [last EXCEPT ![n] = call]
                    /\ opened' = [opened EXCEPT ![n] = IF term THEN @ + 1 ELSE @]
                    /\ IF improperly_formatted(parsed)
                       THEN /\ logged' =
                                 (IF term THEN connect_rabbitmq_log(n, TRUE)
                                  ELSE <<>>)
                                 \o <<Log(n, "warning",
                                          "Improperly formatted message received; discarding."),
                                      LogArg(n, "info", "Message content",
                                             notify.payload)>>
                            /\ return_to_loop(n, rest)
                       ELSE /\ logged' = (IF term THEN connect_rabbitmq_log(n, TRUE)
                                          ELSE <<>>)
                            /\ pc' = [pc EXCEPT ![n] = Head(broker_ops(config[n]))]
                            /\ UNCHANGED state
    /\ UNCHANGED <<supVars, config, conn_rabbitmq, closed, published, sent,
                   socket>>

\* The operations of the try block.
TryOps == {"channel", "exchange_declare", "queue_declare", "basic_publish"}

\* Lines 205-226: the next broker operation of the try block, which may
\* raise.  When it does the except branch logs the discard; when the last
\* one returns the success is logged; either way line 227 follows.
try_block(n) ==
    /\ state[n] = "DRAINING"
    /\ pc[n] \in TryOps
    /\ LET op == pc[n]
           parsed == parse_payload(last[n].payload)
           rest == following(broker_ops(config[n]), op)
       IN \E raises \in BOOLEAN :
            LET failed == IF raises THEN op ELSE last[n].failed IN
            /\ last' = [last EXCEPT ![n].ops = Append(@, op),
                                    ![n].failed = failed]
            /\ calls' = [calls EXCEPT ![n][Len(calls[n])].failed = failed]
            /\ published' = [published EXCEPT ![n] =
                               IF op = "basic_publish"
                               THEN Append(@, [id |-> last[n].id,
                                               exchange |-> config[n].exchange,
                                               routing_key |-> parsed.routing_key,
                                               body |-> parsed.message])
                               ELSE @]
            /\ IF leaves_try(raises)
               THEN /\ logged' = <<Log(n, "warning",
                                       "Unable to republish message; discarding."),
                                   LogArg(n, "info", "Message content",
                                          last[n].payload)>>
                    /\ after_try(n, failed)
               ELSE IF rest # <<>>
               THEN /\ logged' = <<>>
                    /\ pc' = [pc EXCEPT ![n] = Head(rest)]
                    /\ UNCHANGED state
               ELSE /\ logged' = <<Log(n, "info", "Message republished"),
                                   LogArg(n, "debug", "Routing key",
                                          parsed.routing_key),
                                   LogArg(n, "debug", "Message", parsed.message)>>
                    /\ after_try(n, failed)
    /\ UNCHANGED <<supVars, config, conn_rabbitmq, opened, closed, sent,
                   socket, notifies>>

\* Line 228: conn.close() on the call's own connection.  It is outside the
\* try block: when it raises, the exception ends the process.
close(n) ==
    /\ state[n] = "DRAINING"
    /\ pc[n] = "close"
    /\ \E raises \in BOOLEAN :
         /\ last' = [last EXCEPT ![n].ops = Append(@, "close"),
                                 ![n].close_raised = raises]
         /\ IF raises
            THEN /\ state' = exit_process(n)
                 /\ pc' = [pc EXCEPT ![n] = "ended"]
                 /\ UNCHANGED closed
            ELSE /\ closed' = [closed EXCEPT ![n] = @ \cup {last[n].conn}]
                 /\ return_to_loop(n, notifies[n])
    /\ logged' = <<>>
    /\ UNCHANGED <<supVars, config, conn_rabbitmq, opened, published, dbVars>>

\* republish_message past its first blocking call.
republish_message(n) ==
    \/ try_block(n)
    \/ close(n)

\* ------------------------------------------------------------------- next

Bridge(n) ==
    \/ run(n)
    \/ Notify(n)
    \/ select_timeout(n)
    \/ select_ready(n)
    \/ drain(n)
    \/ republish_message(n)

Next ==
    \/ LoadConfigs
    \/ Launch
    \/ Join
    \/ \E n \in Names : Bridge(n)

Spec == Init /\ [][Next]_vars
SpecPayload == InitPayload /\ [][Next]_vars
SpecSup == InitSup /\ [][Next]_vars
\* The supervisor waits in p.join(), which returns once the process it
\* waits for has ended: a join that can return does.
SpecSupFair == InitSup /\ [][Next]_vars /\ WF_vars(Join)

\* ===================================================================
\* Claims
\* ===================================================================

Running(n) == state[n] \in {"LISTENING", "DRAINING"}

\* The steps of the try block of republish_message.
PublishSteps == TryOps

\* Bridge n is inside a republish_message call: at one of its broker
\* operations.
InCall(n) == pc[n] \in TryOps \cup {"close"}

\* A payload's well-formedness stated on the payload itself: it is k:m with
\* k non-empty and free of ':' and m non-empty.
IsKeyBody(p, k, m) ==
    /\ p = k \o <<":">> \o m
    /\ k # <<>>
    /\ m # <<>>
    /\ \A i \in 1..Len(k) : k[i] # ":"

WellFormed(p) ==
    \E i \in 1..Len(p) :
        IsKeyBody(p, SubSeq(p, 1, i - 1), SubSeq(p, i + 1, Len(p)))

\* A step of bridge n in which the callback is called once more.
CallStep(n) == Len(calls'[n]) = Len(calls[n]) + 1

\* A step of bridge n in which a call that went on to its broker operations
\* ends: it returns to the loop, or the process ends in it.
CallEnds(n) == InCall(n) /\ ~InCall(n)'

\* C1: in ephemeral mode, whenever the bridge is back in LISTENING every
\* broker connection it opened has been closed.  (Stated as the claim; the
\* code leaves the connection of a malformed notification open.)
C1_NoOpenConnWhenListening ==
    \A n \in Names :
        (~persistent /\ state[n] = "LISTENING") => open_conns(n) = {}

\* C2: the only transition into FATAL is from STARTING, whatever the broker
\* does, in both modes.  (Stated as the claim; in ephemeral mode a refused
\* broker connect inside republish_message ends the process, and so does a
\* conn.close() that raises.)
C2_FatalOnlyFromStarting ==
    [][\A n \in Names :
          (state'[n] = "FATAL" /\ state[n] # "FATAL") => state[n] = "STARTING"]_vars

\* C3: once channel open, a declaration or basic_publish has failed for a
\* notification, every later notification is still passed to the publish
\* path: none is left undelivered in the buffer or on the socket of a bridge
\* that has ended.  (Stated as the claim; fails through the exit of C2.)
C3_LaterNotificationsStillPassed ==
    \A n \in Names :
        (\E i \in 1..Len(calls[n]) : calls[n][i].failed \in PublishSteps)
            => ~(state[n] = "FATAL" /\ (notifies[n] # <<>> \/ socket[n] # <<>>))

\* C4: for a payload with no ':', an empty key or an empty body, the call
\* logs the discard, opens no channel, declares nothing and never calls
\* basic_publish for that notification.
C4_MalformedNeverPublished ==
    /\ [](\A n \in Names :
            /\ (last[n].id # 0 /\ ~WellFormed(last[n].payload))
                  => /\ \A i \in 1..Len(last[n].ops) :
                            last[n].ops[i] \notin PublishSteps
                     /\ ~InCall(n)
            /\ \A i \in 1..Len(published[n]) :
                  WellFormed(feed[n][published[n][i].id]))
    /\ [][\A n \in Names :
            (CallStep(n) /\ ~WellFormed(last'[n].payload))
                => /\ published'[n] = published[n]
                   /\ Running(n)' =>
                        \E j \in 1..Len(logged') :
                            /\ logged'[j].level = "warning"
                            /\ logged'[j].msg =
                                 "Improperly formatted message received; discarding."]_vars

C4_Witness ==
    /\ last["b1"].id # 0
    /\ last["b1"].payload = <<"a", ":">>
    /\ state["b1"] = "LISTENING"
    /\ published["b1"] = <<>>

\* C5: a step that hands a malformed notification to the callback leaves the
\* bridge running with the rest of the cycle still to be processed, in either
\* mode and whatever the broker does.  (Stated as the claim; in ephemeral
\* mode the broker connect precedes the parse and its failure ends the
\* process.)
C5_MalformedNeverAborts ==
    [][\A n \in Names :
          (CallStep(n) /\ ~WellFormed(last'[n].payload))
              => /\ Running(n)'
                 /\ (notifies'[n] # <<>> => state'[n] = "DRAINING")]_vars

\* C6: for a payload k:m with k non-empty and free of ':' and m non-empty,
\* the parse yields routing key k and body m, so further ':' stay in the
\* body; what is handed to basic_publish is that key and that body.
C6_ParseYieldsKeyAndBody ==
    \A n \in Names :
        /\ \A i \in 1..Len(feed[n]) :
              LET p == feed[n][i] IN
              \A j \in 1..Len(p) :
                  LET k == SubSeq(p, 1, j - 1)
                      m == SubSeq(p, j + 1, Len(p))
                  IN IsKeyBody(p, k, m)
                        => /\ parse_payload(p) = [routing_key |-> k, message |-> m]
                           /\ ~improperly_formatted(parse_payload(p))
        /\ \A i \in 1..Len(published[n]) :
              IsKeyBody(feed[n][published[n][i].id],
                        published[n][i].routing_key, published[n][i].body)

C6_Witness ==
    /\ Len(published["b1"]) = 1
    /\ published["b1"][1].routing_key = <<"a">>
    /\ published["b1"][1].body = <<":", "b">>

\* C7: a well-formed notification whose call is over and had no broker
\* operation fail gets exactly one basic_publish, to the configured
\* exchange, with its key and its body; no notification ever gets a second
\* basic_publish.
C7_ExactlyOnePublish ==
    \A n \in Names :
        /\ \A i, j \in 1..Len(published[n]) :
              published[n][i].id = published[n][j].id => i = j
        /\ \A c \in 1..Len(calls[n]) :
              (/\ WellFormed(feed[n][calls[n][c].id])
               /\ calls[n][c].failed = "none"
               /\ (c < Len(calls[n]) \/ ~InCall(n)))
                  => \E i \in 1..Len(published[n]) :
                        /\ published[n][i].id = calls[n][c].id
                        /\ published[n][i].exchange = config[n].exchange
                        /\ IsKeyBody(feed[n][calls[n][c].id],
                                     published[n][i].routing_key,
                                     published[n][i].body)

C7_Witness ==
    /\ Len(calls["b1"]) = 2
    /\ calls["b1"][1].failed = "basic_publish"
    /\ calls["b1"][2].failed = "none"
    /\ Len(published["b1"]) = 2
    /\ published["b1"][2].body = <<"a", ":", "b">>
    /\ state["b1"] = "LISTENING"

\* C8: in persistent mode the bridge opens its one broker connection while
\* STARTING, passes that handle to every call, and never opens a second one
\* nor closes the first, whatever the notifications and the broker do.
C8_PersistentOneConnection ==
    persistent =>
        \A n \in Names :
            /\ closed[n] = {}
            /\ opened[n] <= 1
            /\ (state[n] = "NONE" \/ pc[n] = "run") => opened[n] = 0
            /\ pc[n] \in {"connect_postgres", "register_listen"}
                  => (opened[n] = 1 /\ conn_rabbitmq[n] = 1)
            /\ Running(n) => (opened[n] = 1 /\ conn_rabbitmq[n] = 1)
            /\ last[n].id # 0 => last[n].conn = 1

C8_Witness ==
    /\ persistent
    /\ state["b1"] = "LISTENING"
    /\ Len(calls["b1"]) = 3
    /\ \E i \in 1..3 : calls["b1"][i].failed \in PublishSteps
    /\ \E i \in 1..3 : ~WellFormed(feed["b1"][calls["b1"][i].id])
    /\ Len(published["b1"]) >= 1

\* The state of bridge m.
BridgeState(m) ==
    <<state[m], pc[m], config[m], conn_rabbitmq[m], opened[m], closed[m],
      sent[m], socket[m], notifies[m], calls[m], published[m], last[m]>>

\* C9: the step in which one bridge ends leaves the state of every other
\* bridge as it was, and a bridge that has not ended can always take its
\* next step (start, poll, drain), whatever has become of the others.
C9_TerminationIsolated ==
    /\ [][\A n \in Names :
            (state'[n] = "FATAL" /\ state[n] # "FATAL")
                => \A m \in Names \ {n} : BridgeState(m)' = BridgeState(m)]_vars
    /\ [](\A m \in Names :
            /\ state[m] = "STARTING" => ENABLED run(m)
            /\ state[m] = "LISTENING" => ENABLED select_ready(m)
            /\ state[m] = "DRAINING"
                  => ENABLED (drain(m) \/ republish_message(m)))

C9_Witness ==
    /\ state["b1"] = "FATAL"
    /\ calls["b1"] = <<>>
    /\ state["b2"] = "LISTENING"
    /\ Len(published["b2"]) = 1

\* C10: a poll timeout leaves the bridge in LISTENING and changes nothing
\* but the log line it writes: nothing is read from the database, the
\* buffer is untouched, the callback is not called, no broker connection is
\* opened or closed, and the process does not end.
C10_TimeoutChangesNothing ==
    [][\A n \in Names :
          (logged' = <<TimedOut(n)>>)
              => /\ state[n] = "LISTENING"
                 /\ state'[n] = "LISTENING"
                 /\ UNCHANGED <<supVars, state, pc, config, brokerVars,
                                dbVars>>]_vars

C10_Witness ==
    /\ logged = <<TimedOut("b1")>>
    /\ state["b1"] = "LISTENING"
    /\ Len(calls["b1"]) = 2
    /\ open_conns("b1") # {}

\* The options every configuration unit must carry.
RequiredKeys == {"name", "exchange", "pg_host"}

LacksRequiredKey(unit) == \E key \in RequiredKeys : unit[key] = Absent

\* C11: when some loaded configuration unit lacks a required key, wherever
\* it is in the load order, no bridge process is ever started, and the
\* program leaves the loading only by its exit with status 1.
C11_MissingKeyAbortsBeforeAnyBridge ==
    (\E i \in 1..Len(files) : LacksRequiredKey(files[i]))
        => /\ \A n \in Names : state[n] = "NONE"
           /\ PROC_LIST = <<>>
           /\ supPc \in {"load", "exit1"}

C11_Witness ==
    /\ Len(files) = 2
    /\ ~LacksRequiredKey(files[1])
    /\ LacksRequiredKey(files[2])
    /\ supPc = "exit1"

\* C12: each of the three failures of STARTING (broker connect in
\* persistent mode, database connect, LISTEN) ends the bridge with a
\* critical message logged by it, and a bridge so ended never polls.
\* (Stated as the claim; register_listen re-raises before its
\* logging.critical calls, so a failed LISTEN ends the process with no
\* critical message.)
C12_StartFailureLogsCritical ==
    [][\A n \in Names :
          /\ (state[n] = "STARTING" /\ state'[n] = "FATAL")
                => \E j \in 1..Len(logged') :
                      logged'[j].proc = n /\ logged'[j].level = "critical"
          /\ state[n] = "FATAL" => state'[n] = "FATAL"]_vars

\* C13: within one drain cycle the buffered notifications are passed to the
\* callback in arrival order: the one passed is the earliest arrived of
\* those still buffered.  (Stated as the claim; notifies.pop() takes the
\* latest.)
C13_DrainIsFifo ==
    [][\A n \in Names :
          CallStep(n)
              => \A i \in 1..Len(notifies[n]) :
                    last'[n].id <= notifies[n][i].id]_vars

\* C14: no notification is passed to the callback twice, and when the bridge
\* is back in LISTENING the buffer is empty and every notification read from
\* the database so far has been passed once; a wake-up that finds no
\* notification calls nothing and leaves the bridge in LISTENING.
C14_DrainHandsEachOnce ==
    /\ [](\A n \in Names :
            /\ \A i, j \in 1..Len(calls[n]) :
                  calls[n][i].id = calls[n][j].id => i = j
            /\ state[n] = "LISTENING"
                  => /\ notifies[n] = <<>>
                     /\ {calls[n][i].id : i \in 1..Len(calls[n])}
                          = 1..(sent[n] - Len(socket[n])))
    /\ [][\A n \in Names :
            (state[n] = "LISTENING" /\ socket[n] = <<>>)
                => (calls'[n] = calls[n] /\ state'[n] = "LISTENING")]_vars

C14_Witness ==
    /\ state["b1"] = "LISTENING"
    /\ Len(calls["b1"]) = 3
    /\ calls["b1"][1].id = 2
    /\ calls["b1"][2].id = 1
    /\ notifies["b1"] = <<>>
    /\ socket["b1"] = <<>>

\* C15: in ephemeral mode the payload is parsed before the broker is
\* touched: the call on a malformed notification opens no broker connection
\* and attempts none.  (Stated as the claim; republish_message connects
\* first and parses afterwards.)
C15_MalformedOpensNoConnection ==
    [][\A n \in Names :
          (CallStep(n) /\ ~persistent /\ ~WellFormed(last'[n].payload))
              => /\ opened'[n] = opened[n]
                 /\ ~InSeq("connect", last'[n].ops)]_vars

\* C16: in ephemeral mode the call on a well-formed notification that gets
\* its broker connection opens exactly one, a fresh one, and no other while
\* it runs; the last thing it does is conn.close() on that same connection,
\* whether channel open, the declarations and basic_publish succeed or one
\* of them raises; and when that close returns the connection is closed and
\* the bridge is back in its loop.
C16_EphemeralOpensOneClosesIt ==
    /\ [][\A n \in Names :
            (CallStep(n) /\ ~persistent /\ WellFormed(last'[n].payload)
             /\ last'[n].failed # "connect")
                => /\ opened'[n] = opened[n] + 1
                   /\ last'[n].conn = opened[n] + 1
                   /\ last'[n].ops = <<"connect">>
                   /\ InCall(n)']_vars
    /\ [][\A n \in Names :
            (~persistent /\ InCall(n))
                => /\ opened'[n] = opened[n]
                   /\ last'[n].conn = last[n].conn
                   /\ last[n].conn \in open_conns(n)]_vars
    /\ [][\A n \in Names :
            (~persistent /\ CallEnds(n))
                => /\ last'[n].ops[Len(last'[n].ops)] = "close"
                   /\ \A i \in 2..Len(last'[n].ops) : last'[n].ops[i] # "connect"
                   /\ ~last'[n].close_raised
                         => /\ closed'[n] = closed[n] \cup {last[n].conn}
                            /\ Running(n)']_vars

C16_Witness ==
    /\ ~persistent
    /\ Len(calls["b1"]) = 2
    /\ calls["b1"][1].failed = "none"
    /\ calls["b1"][2].failed = "channel"
    /\ opened["b1"] = 2
    /\ closed["b1"] = {1, 2}
    /\ state["b1"] = "LISTENING"

\* C17 as stated: no bridge is started with a required option that is
\* absent or empty.  (parse_config tests config.has_option only: an option
\* set to the empty string passes.)
C17_NoBridgeWithEmptyKey ==
    \A n \in Names :
        state[n] # "NONE"
            => \A key \in RequiredKeys :
                  config[n][key] # Absent /\ config[n][key] # ""

\* C17 as amended: no bridge is started with a required option absent; a
\* required option that is present passes validation whatever its value,
\* the empty string included.
C17_NoBridgeWithAbsentKey ==
    /\ \A n \in Names :
          state[n] # "NONE"
              => \A key \in RequiredKeys : config[n][key] # Absent
    /\ supPc # "load"
          => (supPc = "exit1"
                <=> \E i \in 1..Len(files) : LacksRequiredKey(files[i]))

C17_Witness ==
    /\ state["b1"] = "LISTENING"
    /\ config["b1"].pg_host = ""
    /\ Len(files) = 1

\* The bridge names of the configuration units given.
FileNames == {files[i].name : i \in 1..Len(files)}

\* The unit loaded last among those named nm.
LastUnit(nm) ==
    files[CHOOSE i \in 1..Len(files) :
            /\ files[i].name = nm
            /\ \A j \in (i + 1)..Len(files) : files[j].name # nm]

\* C18: the supervisor starts exactly one process per distinct bridge name,
\* and a name carried by several units runs with the unit loaded last.
C18_OneProcessPerNameLastWins ==
    /\ \A i, j \in 1..Len(PROC_LIST) : PROC_LIST[i] = PROC_LIST[j] => i = j
    /\ \A i \in 1..Len(PROC_LIST) :
          /\ PROC_LIST[i] \in FileNames
          /\ config[PROC_LIST[i]] = LastUnit(PROC_LIST[i])
    /\ \A n \in Names :
          state[n] # "NONE" <=> \E i \in 1..Len(PROC_LIST) : PROC_LIST[i] = n
    /\ supPc \in {"join", "done"}
          => {PROC_LIST[i] : i \in 1..Len(PROC_LIST)} = FileNames

C18_Witness ==
    /\ Len(files) = 2
    /\ files[1].name = files[2].name
    /\ files[1] # files[2]
    /\ supPc = "join"
    /\ Len(PROC_LIST) = 1
    /\ config[files[1].name] = files[2]

\* C19: the supervisor has not finished while a bridge process it started is
\* still running, and once every process it started has ended it eventually
\* finishes.
C19_SupervisorWaitsForAll ==
    /\ [](supPc = "done"
            => \A i \in 1..Len(PROC_LIST) : state[PROC_LIST[i]] = "FATAL")
    /\ (/\ supPc = "join"
        /\ \A i \in 1..Len(PROC_LIST) : state[PROC_LIST[i]] = "FATAL")
          ~> (supPc = "done")

C19_Witness ==
    /\ supPc = "done"
    /\ Len(PROC_LIST) = 2
    /\ joined = 2
    /\ \E n \in Names : calls[n] # <<>>

\* The place of a broker operation in the order the claim gives.
StepRank(op) ==
    CASE op = "channel" -> 1
      [] op = "exchange_declare" -> 2
      [] op = "queue_declare" -> 3
      [] op = "basic_publish" -> 4
      [] OTHER -> 0

\* The operations of the try block in the last call of bridge n.
TrySteps(n) ==
    SelectSeq(last[n].ops, LAMBDA op : op \in PublishSteps)

\* C20: a publish attempt, once its try block is left, has opened the
\* channel first, then declared the exchange (if and only if one is
\* configured non-empty), then the queue (if and only if one is configured),
\* then called basic_publish; nothing follows a step that raised, so
\* basic_publish is called only after every step before it succeeded.
C20_BrokerOpsInOrder ==
    \A n \in Names :
        (last[n].id # 0 /\ WellFormed(last[n].payload)
         /\ last[n].failed # "connect" /\ pc[n] \notin TryOps)
            => LET t == TrySteps(n) IN
               /\ t # <<>> /\ t[1] = "channel"
               /\ \A i, j \in 1..Len(t) : i < j => StepRank(t[i]) < StepRank(t[j])
               /\ last[n].failed # "none"
                     => t[Len(t)] = last[n].failed
               /\ InSeq("basic_publish", t)
                     <=> last[n].failed \in {"none", "basic_publish"}
               /\ InSeq("basic_publish", t)
                     => /\ InSeq("exchange_declare", t)
                             <=> config[n].exchange # ""
                        /\ InSeq("queue_declare", t)
                             <=> config[n].queue # Absent
               /\ InSeq("exchange_declare", t) => config[n].exchange # ""
               /\ InSeq("queue_declare", t) => config[n].queue # Absent

C20_Witness ==
    /\ last["b1"].ops = <<"connect", "channel", "exchange_declare",
                          "queue_declare", "basic_publish", "close">>
    /\ last["b1"].failed = "none"
    /\ Len(calls["b1"]) = 2
    /\ calls["b1"][1].failed = "exchange_declare"

====
